---- MODULE Spec2Model ----
(***************************************************************************)
(* Model of the two conversion routines of pre-process-pipeline:           *)
(*                                                                         *)
(*   convert_label_studio_to_hf  (src/json_to_arrow.py)                    *)
(*       reads a corrected Label Studio export and flattens every Task    *)
(*       into parallel arrays (tokens, bboxes, ner_tags);                  *)
(*   create_lmv3_dataset         (src/pre-process-pipeline.py)             *)
(*       turns the OCR detections of every image of a folder into a       *)
(*       Label Studio Task (geometry record + transcription record per    *)
(*       detection).                                                       *)
(*                                                                         *)
(* The two routines never run in the same call graph, so each has its own *)
(* specification (SpecFlatten, SpecProduce) over its own variables.        *)
(* A Python dict is a TLA+ function whose DOMAIN is the set of its keys:   *)
(* a missing key is a key outside DOMAIN, and reading it raises KeyError.  *)
(* A Python exception that leaves the routine is recorded in *_exc and     *)
(* ends the call (pc = "raised"): nothing is returned to the caller.       *)
(***************************************************************************)
EXTENDS Integers, Sequences, FiniteSets, TLC

VARIABLES
    \* ---- convert_label_studio_to_hf ----
    data,           \* json.load(f): the export, a sequence of Tasks
    f_pc,           \* "loop" | "returned" | "raised"
    f_done,         \* number of items of data the outer loop has consumed
    all_ids, all_images, all_tokens, all_bboxes, all_ner_tags,
    hf_dataset,     \* the value returned to the caller (None until returned)
    f_exc,          \* the exception that left the routine (None if none)
    \* ---- create_lmv3_dataset ----
    folder,         \* os.listdir(images_folder_path), each file with what
                    \* Image.open and ocr.ocr return for it
    save_to_file,   \* the argument save_to_file
    p_pc,           \* "loop" | "returned" | "raised"
    p_done,         \* number of files the outer loop has consumed
    label_studio_task_list,
    json_file,      \* what json.dump wrote to output_filename (None if nothing)
    p_ret,          \* the tuple returned to the caller (None until returned)
    p_exc           \* the exception that left the routine (None if none)

pvars == <<folder, save_to_file, p_pc, p_done, label_studio_task_list,
           json_file, p_ret, p_exc>>

fvars == <<data, f_pc, f_done, all_ids, all_images, all_tokens, all_bboxes,
           all_ner_tags, hf_dataset, f_exc>>

vars == <<fvars, pvars>>

\* Python None (a record, so that it compares with the dicts it stands in for).
None == [none |-> TRUE]

Min(a, b) == IF a <= b THEN a ELSE b

SetMin(S) == CHOOSE m \in S : \A k \in S : m <= k

(***************************************************************************)
(* Bounds of the model.                                                    *)
(***************************************************************************)
MaxTasks  == 2      \* Tasks per export
MaxTokens == 3      \* length of a Task's `transcription`
MaxLabels == 2      \* length of a Task's `label`
MaxFiles  == 2      \* files per images folder
MaxDets   == 2      \* detections the OCR engine returns for an image

(***************************************************************************)
(* src/json_to_arrow.py                                                    *)
(***************************************************************************)

LABEL_TO_ID ==
    [ano_calendario |-> 0, dependentes |-> 1, exercicio_e_ano |-> 2,
     nome_contribuinte |-> 3, protegida_por_sigilo |-> 4, rodape_pagina |-> 5,
     texto_ignorado |-> 6, tipo_declaracao |-> 7, valor_total_bens |-> 8]

\* LABEL_TO_ID[label_name]: an unknown name treated like the first class.
LabelIdDefaultZero(label_name) ==
    IF label_name \in DOMAIN LABEL_TO_ID THEN LABEL_TO_ID[label_name] ELSE 0

\* LABEL_TO_ID.get(label_name, -1)
LabelId(label_name) ==
    IF label_name \in DOMAIN LABEL_TO_ID THEN LABEL_TO_ID[label_name] ELSE -1

KeyError(key) == [type |-> "KeyError", arg |-> key]
IndexError == [type |-> "IndexError", arg |-> "list index out of range"]

\* The exception one pass of the inner loop body raises on label_info, in the
\* order the body reads the entry (x, y, width, height, then labels[0]).
EntryFault(label_info) ==
    IF "x" \notin DOMAIN label_info THEN KeyError("x")
    ELSE IF "y" \notin DOMAIN label_info THEN KeyError("y")
    ELSE IF "width" \notin DOMAIN label_info THEN KeyError("width")
    ELSE IF "height" \notin DOMAIN label_info THEN KeyError("height")
    ELSE IF "labels" \notin DOMAIN label_info THEN KeyError("labels")
    ELSE IF Len(label_info["labels"]) = 0 THEN IndexError
    ELSE None

\* zip(item["label"], tokens) yields this many pairs.
ZipLen(item) == Min(Len(item["label"]), Len(item["transcription"]))

\* The pairs of the zip on which the loop body raises.
FaultyPairs(item) ==
    {i \in 1..ZipLen(item) : EntryFault(item["label"][i]) # None}

\* [x, y, w, h] of one label entry.
BoxOf(label_info) ==
    <<label_info["x"], label_info["y"], label_info["width"], label_info["height"]>>

\* The inner loop with a faulty entry skipped (try/except: continue) instead of
\* the exception leaving the routine.
FlattenItemSkipFaulty(item) ==
    LET good == SelectSeq(SubSeq(item["label"], 1, ZipLen(item)),
                          LAMBDA e : EntryFault(e) = None)
    IN  [raised   |-> FALSE,
         tokens   |-> item["transcription"],
         bboxes   |-> [i \in 1..Len(good) |-> BoxOf(good[i])],
         ner_tags |-> [i \in 1..Len(good) |-> LabelId(good[i]["labels"][1])]]

\* The inner loop taking the last class name of an entry, labels[-1].
FlattenItemLastLabel(item) ==
    IF FaultyPairs(item) # {}
    THEN [raised |-> TRUE,
          exc    |-> EntryFault(item["label"][SetMin(FaultyPairs(item))])]
    ELSE [raised   |-> FALSE,
          tokens   |-> item["transcription"],
          bboxes   |-> [i \in 1..ZipLen(item) |-> BoxOf(item["label"][i])],
          ner_tags |-> [i \in 1..ZipLen(item) |->
                          LabelId(item["label"][i]["labels"]
                                     [Len(item["label"][i]["labels"])])]]

\* One pass of the outer loop body up to the appends: the locals tokens, bboxes,
\* ner_tags of the item, or the exception the first faulty pair raises.
FlattenItem(item) ==
    IF FaultyPairs(item) # {}
    THEN [raised |-> TRUE,
          exc    |-> EntryFault(item["label"][SetMin(FaultyPairs(item))])]
    ELSE [raised   |-> FALSE,
          tokens   |-> item["transcription"],
          bboxes   |-> [i \in 1..ZipLen(item) |-> BoxOf(item["label"][i])],
          ner_tags |-> [i \in 1..ZipLen(item) |->
                          LabelId(item["label"][i]["labels"][1])]]

(***************************************************************************)
(* The exports the model reads.                                            *)
(***************************************************************************)
BoxA == <<10, 5, 40, 10>>
BoxB == <<50, 20, 30, 8>>

Entry(b, ls) ==
    [x |-> b[1], y |-> b[2], width |-> b[3], height |-> b[4], labels |-> ls]

Without(d, key) == [k \in DOMAIN d \ {key} |-> d[k]]

WellFormedEntries ==
    {Entry(BoxA, <<n>>) : n \in {"ano_calendario", "exercicio_e_ano",
                                  "nome_contribuinte", "rodape_pagina",
                                  "valor_total_bens"}}
    \cup {Entry(BoxB, <<n>>) : n \in {"dependentes", "protegida_por_sigilo",
                                       "texto_ignorado", "tipo_declaracao"}}
    \cup {Entry(BoxB, <<"dependentes", "nome_contribuinte">>),
          Entry(BoxB, <<"assinatura">>),
          Entry(BoxA, <<"Nome_Contribuinte", "tipo_declaracao">>)}

MalformedEntries ==
    {Without(Entry(BoxA, <<"nome_contribuinte">>), k) :
        k \in {"x", "y", "width", "height", "labels"}}
    \cup {Entry(BoxB, <<>>)}

Entries == WellFormedEntries \cup MalformedEntries

SeqsUpTo(S, n) == UNION {[1..k -> S] : k \in 0..n}

Words == <<"NOME", "JOAO", "CPF", "2023", "TOTAL", "BENS">>

\* A transcription of n tokens.
Transcription(n) == [i \in 1..n |-> Words[((i - 1) % Len(Words)) + 1]]

\* The Tasks that surround the Task under study in an export.
NeighbourBodies ==
    {[transcription |-> Transcription(2),
      label |-> <<Entry(BoxA, <<"nome_contribuinte">>),
                  Entry(BoxB, <<"ano_calendario">>)>>],
     [transcription |-> Transcription(1),
      label |-> <<Entry(BoxB, <<"dependentes">>),
                  Without(Entry(BoxA, <<"rodape_pagina">>), "labels")>>]}

TaskId(pos) == 100 + pos
TaskImage(pos) == <<"/data/upload/page.png", pos>>

MakeTask(pos, body) ==
    [id |-> TaskId(pos), ocr |-> TaskImage(pos),
     transcription |-> body.transcription, label |-> body.label]

(***************************************************************************)
(* convert_label_studio_to_hf(json_path)                                   *)
(***************************************************************************)
\* json.load(f): an export of 1..MaxTasks Tasks. One Task, at any position k,
\* has any label list up to MaxLabels and any transcription length up to
\* MaxTokens; the Tasks around it are NeighbourBodies.
FlattenInit ==
    /\ \E n \in 1..MaxTasks, k \in 1..MaxTasks :
        \E t \in 0..MaxTokens, ls \in SeqsUpTo(Entries, MaxLabels),
           nb \in [1..n -> NeighbourBodies] :
            /\ k <= n
            /\ data = [p \in 1..n |->
                         MakeTask(p, IF p = k
                                     THEN [transcription |-> Transcription(t),
                                           label |-> ls]
                                     ELSE nb[p])]
    /\ f_pc = "loop"
    /\ f_done = 0
    /\ all_ids = <<>>
    /\ all_images = <<>>
    /\ all_tokens = <<>>
    /\ all_bboxes = <<>>
    /\ all_ner_tags = <<>>
    /\ hf_dataset = None
    /\ f_exc = None
    \* create_lmv3_dataset is not running
    /\ folder = <<>>
    /\ save_to_file = FALSE
    /\ p_pc = "idle"
    /\ p_done = 0
    /\ label_studio_task_list = <<>>
    /\ json_file = None
    /\ p_ret = None
    /\ p_exc = None

\* One pass of `for item in data` that reaches the appends.
FlattenNext ==
    /\ f_pc = "loop"
    /\ f_done < Len(data)
    /\ LET item == data[f_done + 1]
           r == FlattenItem(item)
       IN  /\ ~r.raised
           /\ all_ids' = Append(all_ids, item["id"])
           /\ all_images' = Append(all_images, item["ocr"])
           /\ all_tokens' = Append(all_tokens, r.tokens)
           /\ all_bboxes' = Append(all_bboxes, r.bboxes)
           /\ all_ner_tags' = Append(all_ner_tags, r.ner_tags)
    /\ f_done' = f_done + 1
    /\ UNCHANGED <<data, f_pc, hf_dataset, f_exc>>
    /\ UNCHANGED pvars

\* One pass of `for item in data` in which the inner loop raises: the
\* exception is caught nowhere and leaves convert_label_studio_to_hf.
FlattenRaise ==
    /\ f_pc = "loop"
    /\ f_done < Len(data)
    /\ LET r == FlattenItem(data[f_done + 1])
       IN  /\ r.raised
           /\ f_exc' = r.exc
    /\ f_pc' = "raised"
    /\ UNCHANGED <<data, f_done, all_ids, all_images, all_tokens, all_bboxes,
                   all_ner_tags, hf_dataset>>
    /\ UNCHANGED pvars

\* After the loop: hf_dict, Dataset.from_dict(hf_dict), return.
FlattenReturn ==
    /\ f_pc = "loop"
    /\ f_done = Len(data)
    /\ hf_dataset' = [id |-> all_ids, image |-> all_images, tokens |-> all_tokens,
                      bboxes |-> all_bboxes, ner_tags |-> all_ner_tags]
    /\ f_pc' = "returned"
    /\ UNCHANGED <<data, f_done, all_ids, all_images, all_tokens, all_bboxes,
                   all_ner_tags, f_exc>>
    /\ UNCHANGED pvars

FlattenStep == FlattenNext \/ FlattenRaise \/ FlattenReturn

SpecFlatten == FlattenInit /\ [][FlattenStep]_vars

(***************************************************************************)
(* src/pre-process-pipeline.py                                             *)
(***************************************************************************)

\* A Python float that is the quotient n / d of two integers (d # 0), kept
\* exact as a fraction in lowest terms with a positive denominator.
RECURSIVE Gcd(_, _)
Gcd(a, b) == IF b = 0 THEN a ELSE Gcd(b, a % b)

Abs(n) == IF n < 0 THEN -n ELSE n

Quotient(n, d) ==
    LET g == Gcd(Abs(n), Abs(d))
        s == IF d < 0 THEN -1 ELSE 1
    IN  [num |-> s * (n \div g), den |-> s * (d \div g)]

ZeroDivisionError == [type |-> "ZeroDivisionError", arg |-> "division by zero"]

\* image_name.lower().endswith(('.png', '.jpg', '.jpeg'))
IsImageName(image_name) ==
    image_name \in {"page_1.png", "page_2.PNG", "page_3.jpg", "page_4.jpeg"}

\* create_image_url(image_path) for the relative paths convert_pdf_to_images
\* hands to create_lmv3_dataset ("image/<pdf name>").
create_image_url(image_path) == "http://localhost:8080/" \o image_path

\* `if not text: continue` dropped: no detection is skipped.
SkipTextNever(text) == FALSE

\* `if not text: continue`
SkipText(text) == text = ""

\* The box with its size measured to the second corner, coords[1].
NormalizedBoxSecondCorner(coords, image_width, image_height) ==
    [x        |-> Quotient(100 * coords[1][1], image_width),
     y        |-> Quotient(100 * coords[1][2], image_height),
     width    |-> Quotient(100 * (coords[2][1] - coords[1][1]), image_width),
     height   |-> Quotient(100 * (coords[2][2] - coords[1][2]), image_height),
     rotation |-> 0]

\* The box with a negative size clamped to zero, max(0, width).
NormalizedBoxClamped(coords, image_width, image_height) ==
    LET width  == coords[3][1] - coords[1][1]
        height == coords[3][2] - coords[1][2]
    IN  [x        |-> Quotient(100 * coords[1][1], image_width),
         y        |-> Quotient(100 * coords[1][2], image_height),
         width    |-> Quotient(100 * (IF width < 0 THEN 0 ELSE width), image_width),
         height   |-> Quotient(100 * (IF height < 0 THEN 0 ELSE height), image_height),
         rotation |-> 0]

\* bbox: the normalized bounding box values (as percentages) of one detection.
\* coords[1] is Python's coords[0], coords[3] is coords[2].
NormalizedBox(coords, image_width, image_height) ==
    LET x      == coords[1][1]
        y      == coords[1][2]
        width  == coords[3][1] - coords[1][1]
        height == coords[3][2] - coords[1][2]
    IN  [x        |-> Quotient(100 * x, image_width),
         y        |-> Quotient(100 * y, image_height),
         width    |-> Quotient(100 * width, image_width),
         height   |-> Quotient(100 * height, image_height),
         rotation |-> 0]

bbox_result(region_id, bbox) ==
    [id |-> region_id, from_name |-> "bbox", to_name |-> "image",
     type |-> "rectangle", value |-> bbox]

\* 'value': dict(text=[text], **bbox)
transcription_result(region_id, bbox, text) ==
    [id |-> region_id, from_name |-> "transcription", to_name |-> "image",
     type |-> "textarea",
     value |-> [text |-> <<text>>, x |-> bbox.x, y |-> bbox.y,
                width |-> bbox.width, height |-> bbox.height,
                rotation |-> bbox.rotation],
     score |-> Quotient(5, 10)]

\* The items of `output` the inner loop does not skip. An item is
\* <<coords, <<text, confidence>>>>; `output is None` gives no item.
KeptItems(output) ==
    IF output = None THEN <<>>
    ELSE SelectSeq(output.items, LAMBDA item : ~SkipText(item[2][1]))

\* annotation_result after the loops over `result`, the k-th kept item given
\* the region id region_ids[k].
AnnotationResult(output, image_width, image_height, region_ids) ==
    LET kept == KeptItems(output)
    IN  [j \in 1..(2 * Len(kept)) |->
            LET k    == (j + 1) \div 2
                bbox == NormalizedBox(kept[k][1], image_width, image_height)
            IN  IF j % 2 = 1
                THEN bbox_result(region_ids[k], bbox)
                ELSE transcription_result(region_ids[k], bbox, kept[k][2][1])]

\* The division of the first kept item raises when a dimension is zero.
ImageRaises(file) ==
    /\ KeptItems(file.result) # <<>>
    /\ (file.shape[2] = 0 \/ file.shape[1] = 0)

(***************************************************************************)
(* The folders the model reads.                                            *)
(***************************************************************************)
PolyExample  == <<<<10, 10>>, <<50, 10>>, <<50, 30>>, <<10, 30>>>>
PolyFull     == <<<<0, 0>>, <<100, 0>>, <<100, 200>>, <<0, 200>>>>
PolyReversed == <<<<50, 30>>, <<10, 30>>, <<10, 10>>, <<50, 10>>>>
PolyOutside  == <<<<150, 210>>, <<180, 210>>, <<180, 230>>, <<150, 230>>>>

Polygons == {PolyExample, PolyFull, PolyReversed, PolyOutside}

Texts == {"", " ", "ABC"}

\* One element of `output`: [coords, (text, confidence)]. Every polygon with a
\* recognized word, and every text on the example polygon.
Items ==
    {<<c, <<"ABC", 1>>>> : c \in Polygons}
    \cup {<<PolyExample, <<t, 1>>>> : t \in Texts}

\* img.shape[:2] = (image_height, image_width)
Shapes == {<<200, 100>>, <<90, 300>>, <<200, 0>>, <<0, 100>>}

\* str(uuid4())[:10]: eight hex digits, a dash and one more hex digit.
RegionIds == {"3f2a9c1e-7", "b81d04aa-c"}

ImagesFolder == "image/doc"

File(name, shape, output) == [image_name |-> name, shape |-> shape, result |-> output]

Output(items) == [items |-> items]

\* The files that surround the file under study in a folder.
NeighbourFiles ==
    {File("notes.txt", <<0, 0>>, None),
     File("page_2.PNG", <<200, 100>>, Output(<<<<PolyExample, <<"ABC", 1>>>>>>)),
     File("page_3.jpg", <<200, 0>>, Output(<<<<PolyFull, <<"", 1>>>>>>))}

(***************************************************************************)
(* create_lmv3_dataset(images_folder_path, output_filename=None,           *)
(*                     save_to_file)                                       *)
(***************************************************************************)
\* os.listdir: a folder of 1..MaxFiles files. One file, at any position k, is
\* an image of any of Shapes for which the OCR engine returns None or any
\* list of up to MaxDets Items; the files around it are NeighbourFiles.
ProduceInit ==
    /\ \E n \in 1..MaxFiles, k \in 1..MaxFiles :
        \E shape \in Shapes,
           output \in {None} \cup {Output(s) : s \in SeqsUpTo(Items, MaxDets)},
           nb \in [1..n -> NeighbourFiles] :
            /\ k <= n
            /\ folder = [p \in 1..n |->
                           IF p = k THEN File("page_1.png", shape, output)
                           ELSE nb[p]]
    /\ save_to_file \in BOOLEAN
    /\ p_pc = "loop"
    /\ p_done = 0
    /\ label_studio_task_list = <<>>
    /\ json_file = None
    /\ p_ret = None
    /\ p_exc = None
    \* convert_label_studio_to_hf is not running
    /\ data = <<>>
    /\ f_pc = "idle"
    /\ f_done = 0
    /\ all_ids = <<>>
    /\ all_images = <<>>
    /\ all_tokens = <<>>
    /\ all_bboxes = <<>>
    /\ all_ner_tags = <<>>
    /\ hf_dataset = None
    /\ f_exc = None

\* One pass of `for image_name in os.listdir(...)` on a file that is no image.
ProduceSkipFile ==
    /\ p_pc = "loop"
    /\ p_done < Len(folder)
    /\ ~IsImageName(folder[p_done + 1].image_name)
    /\ p_done' = p_done + 1
    /\ UNCHANGED <<folder, save_to_file, p_pc, label_studio_task_list,
                   json_file, p_ret, p_exc>>
    /\ UNCHANGED fvars

\* One pass of the outer loop on an image: its Task is appended. Every kept
\* detection draws its own str(uuid4())[:10].
ProduceImage ==
    /\ p_pc = "loop"
    /\ p_done < Len(folder)
    /\ LET file == folder[p_done + 1]
           image_path == ImagesFolder \o "/" \o file.image_name
       IN  /\ IsImageName(file.image_name)
           /\ ~ImageRaises(file)
           /\ \E region_ids \in [1..Len(KeptItems(file.result)) -> RegionIds] :
                 label_studio_task_list' =
                     Append(label_studio_task_list,
                            [data |-> [ocr |-> create_image_url(image_path)],
                             predictions |->
                                 <<[result |-> AnnotationResult(file.result,
                                                   file.shape[2], file.shape[1],
                                                   region_ids),
                                    score  |-> Quotient(97, 100)]>>])
    /\ p_done' = p_done + 1
    /\ UNCHANGED <<folder, save_to_file, p_pc, json_file, p_ret, p_exc>>
    /\ UNCHANGED fvars

\* One pass of the outer loop on an image with a zero dimension and a kept
\* detection: the division raises and the exception leaves the routine.
ProduceRaise ==
    /\ p_pc = "loop"
    /\ p_done < Len(folder)
    /\ IsImageName(folder[p_done + 1].image_name)
    /\ ImageRaises(folder[p_done + 1])
    /\ p_pc' = "raised"
    /\ p_exc' = ZeroDivisionError
    /\ UNCHANGED <<folder, save_to_file, p_done, label_studio_task_list,
                   json_file, p_ret>>
    /\ UNCHANGED fvars

\* After the loop: json.dump when save_to_file, then return.
ProduceReturn ==
    /\ p_pc = "loop"
    /\ p_done = Len(folder)
    /\ IF save_to_file
       THEN /\ json_file' = [tasks |-> label_studio_task_list]
            /\ p_ret' = [output_filename |-> "doc_label-studio.json",
                         tasks |-> label_studio_task_list]
       ELSE /\ json_file' = json_file
            /\ p_ret' = [output_filename |-> "None",
                         tasks |-> label_studio_task_list]
    /\ p_pc' = "returned"
    /\ UNCHANGED <<folder, save_to_file, p_done, label_studio_task_list, p_exc>>
    /\ UNCHANGED fvars

ProduceStep == ProduceSkipFile \/ ProduceImage \/ ProduceRaise \/ ProduceReturn

SpecProduce == ProduceInit /\ [][ProduceStep]_vars

(***************************************************************************)
(* Properties of convert_label_studio_to_hf, checked under SpecFlatten.    *)
(***************************************************************************)
RequiredKeys == {"x", "y", "width", "height", "labels"}

\* The label entry lacks the `labels` list or one of the box fields.
MissingField(label_info) == ~(RequiredKeys \subseteq DOMAIN label_info)

\* The loop body cannot complete on the entry: a field is missing, or `labels`
\* is an empty list.
StructuralFault(label_info) ==
    MissingField(label_info) \/ label_info["labels"] = <<>>

\* The class names in the order of their ids.
Vocabulary ==
    <<"ano_calendario", "dependentes", "exercicio_e_ano", "nome_contribuinte",
      "protegida_por_sigilo", "rodape_pagina", "texto_ignorado",
      "tipo_declaracao", "valor_total_bens">>

ExpectedTag(name) ==
    IF \E k \in 1..Len(Vocabulary) : Vocabulary[k] = name
    THEN (CHOOSE k \in 1..Len(Vocabulary) : Vocabulary[k] = name) - 1
    ELSE -1

PairedLen(task) ==
    IF Len(task["transcription"]) < Len(task["label"])
    THEN Len(task["transcription"]) ELSE Len(task["label"])

\* C1 (as claimed): in the dataset returned, tokens, bboxes and ner_tags of every
\* record have the same length, min(len(transcription), len(label)).
C1_ArraysHaveMinLength ==
    f_pc = "returned" =>
        \A p \in 1..Len(data) :
            /\ Len(hf_dataset.tokens[p]) = PairedLen(data[p])
            /\ Len(hf_dataset.bboxes[p]) = PairedLen(data[p])
            /\ Len(hf_dataset.ner_tags[p]) = PairedLen(data[p])

\* C4 (as claimed): a Task with a label entry that lacks `labels` or a box
\* field, at any index, is never flattened: no record of it is appended or
\* returned.
C4_AnyMissingFieldFails ==
    \A p \in 1..Len(all_ids) :
        \A i \in 1..Len(data[p]["label"]) : ~MissingField(data[p]["label"][i])

\* C4 (amended): a label entry that is paired with a token (index below
\* min(len(label), len(transcription))) and lacks `labels` or a box field makes
\* the call raise KeyError for the missing key: no record of its Task is
\* appended, and nothing is returned. An entry beyond the pairs is never read.
C4_PairedMissingFieldFails ==
    /\ \A p \in 1..Len(all_ids) :
          \A i \in 1..PairedLen(data[p]) : ~MissingField(data[p]["label"][i])
    /\ f_pc = "returned" =>
          /\ Len(hf_dataset.id) = Len(data)
          /\ \A p \in 1..Len(data) :
                \A i \in 1..PairedLen(data[p]) : ~MissingField(data[p]["label"][i])
    /\ f_pc = "raised" =>
          /\ hf_dataset = None
          /\ Len(all_ids) = f_done
          /\ \E i \in 1..PairedLen(data[f_done + 1]) :
                LET e == data[f_done + 1]["label"][i]
                IN  /\ StructuralFault(e)
                    /\ \A j \in 1..(i - 1) :
                          ~StructuralFault(data[f_done + 1]["label"][j])
                    /\ MissingField(e) =>
                          /\ f_exc.type = "KeyError"
                          /\ f_exc.arg \in RequiredKeys \ DOMAIN e

\* Witness of C4: the call has raised on a paired entry without `labels`, and
\* the Task before it had been flattened.
C4_Witness ==
    /\ f_pc = "raised"
    /\ f_done = 1
    /\ f_exc = KeyError("labels")
    /\ Len(all_ids) = 1

\* Second witness of the amendment's last sentence: a dataset is returned for a
\* Task whose unpaired trailing entry lacks a field.
C4_TrailingWitness ==
    /\ f_pc = "returned"
    /\ \E p \in 1..Len(data) :
          \E i \in (PairedLen(data[p]) + 1)..Len(data[p]["label"]) :
              MissingField(data[p]["label"][i])

\* C5 (as claimed): a structural error in one Task is fatal for that Task only:
\* the failure names the bad Task's id, and the well-formed Tasks of the export
\* are still flattened and handed to the caller.
C5_ErrorIsPerTask ==
    (/\ f_pc = "raised"
     /\ \E p \in 1..Len(data) :
           \A i \in 1..PairedLen(data[p]) : ~StructuralFault(data[p]["label"][i]))
    =>
        /\ "task_id" \in DOMAIN f_exc
        /\ f_exc["task_id"] = data[f_done + 1]["id"]
        /\ hf_dataset # None
        /\ \A p \in 1..Len(data) :
              (\A i \in 1..PairedLen(data[p]) :
                   ~StructuralFault(data[p]["label"][i]))
              => \E q \in 1..Len(hf_dataset.id) : hf_dataset.id[q] = data[p]["id"]

\* C7: the ner_tag of a paired label entry is the vocabulary id of its first
\* class name ("nome_contribuinte" -> 3) and -1 for any other name; an unknown
\* name raises nothing: the call raises only on an entry that lacks a field or
\* has an empty `labels` list.
C7_LabelIds ==
    /\ \A p \in 1..Len(all_ner_tags) :
          \A i \in 1..Len(all_ner_tags[p]) :
              LET name == data[p]["label"][i]["labels"][1]
              IN  /\ all_ner_tags[p][i] = ExpectedTag(name)
                  /\ name = "nome_contribuinte" => all_ner_tags[p][i] = 3
                  /\ all_ner_tags[p][i] \in -1..8
    /\ f_pc = "raised" =>
          \E i \in 1..PairedLen(data[f_done + 1]) :
              LET e == data[f_done + 1]["label"][i]
              IN  MissingField(e) \/ Len(e["labels"]) = 0
    /\ f_pc = "returned" => hf_dataset.ner_tags = all_ner_tags

\* Witness of C7: a dataset is returned in which one record holds the id 3 of
\* "nome_contribuinte" and the sentinel -1 of an unknown name.
C7_Witness ==
    /\ f_pc = "returned"
    /\ \E p \in 1..Len(data) :
          /\ Len(hf_dataset.ner_tags[p]) = 2
          /\ data[p]["label"][1]["labels"] = <<"assinatura">>
          /\ hf_dataset.ner_tags[p] = <<-1, 3>>

\* C10: label and transcription are paired by position: bboxes[i] is
\* [x, y, width, height] of label[i] unchanged and ner_tags[i] is resolved from
\* label[i].labels[0] alone, for every i below min(len(label),
\* len(transcription)); entries beyond add nothing and raise nothing.
C10_PositionalPairing ==
    /\ f_pc = "returned" =>
          \A p \in 1..Len(data) :
              LET task == data[p]
              IN  /\ hf_dataset.id[p] = task["id"]
                  /\ Len(hf_dataset.bboxes[p]) = PairedLen(task)
                  /\ Len(hf_dataset.ner_tags[p]) = PairedLen(task)
                  /\ \A i \in 1..PairedLen(task) :
                        /\ hf_dataset.bboxes[p][i] =
                              <<task["label"][i]["x"], task["label"][i]["y"],
                                task["label"][i]["width"], task["label"][i]["height"]>>
                        /\ hf_dataset.ner_tags[p][i] =
                              ExpectedTag(task["label"][i]["labels"][1])
    /\ f_pc = "raised" =>
          \E i \in 1..PairedLen(data[f_done + 1]) :
              StructuralFault(data[f_done + 1]["label"][i])

\* Witness of C10: a dataset is returned for a Task with more labels than
\* tokens whose paired entry names two classes and whose trailing entry is
\* malformed.
C10_Witness ==
    /\ f_pc = "returned"
    /\ \E p \in 1..Len(data) :
          /\ Len(data[p]["transcription"]) = 1
          /\ Len(data[p]["label"]) = 2
          /\ data[p]["label"][1]["labels"] = <<"dependentes", "nome_contribuinte">>
          /\ MissingField(data[p]["label"][2])
          /\ hf_dataset.ner_tags[p] = <<1>>
          /\ hf_dataset.bboxes[p] = <<BoxB>>

(***************************************************************************)
(* Properties of create_lmv3_dataset, checked under SpecProduce.           *)
(***************************************************************************)
\* The image files among the first n files of the folder: the j-th of them is
\* the image of the j-th Task.
ImageFiles(n) ==
    SelectSeq(SubSeq(folder, 1, n), LAMBDA f : IsImageName(f.image_name))

Detections(file) == IF file.result = None THEN <<>> ELSE file.result.items

TaskResult(j) == label_studio_task_list[j].predictions[1].result

TaskCount == Len(label_studio_task_list)

WhitespaceOnly == {" "}

Blank(text) == text = "" \/ text \in WhitespaceOnly

\* q is the quotient n / d.
IsQuotient(q, n, d) == q.den > 0 /\ q.num * d = n * q.den

Whole(n) == [num |-> n, den |-> 1]

\* Corners given as top-left, top-right, bottom-right, bottom-left.
WellOrdered(c) ==
    /\ c[1][1] <= c[2][1] /\ c[4][1] <= c[3][1]
    /\ c[1][2] <= c[4][2] /\ c[2][2] <= c[3][2]
    /\ c[1][1] <= c[3][1] /\ c[1][2] <= c[3][2]

\* C2 (as claimed): in every Task each transcription record has exactly one
\* geometry record with its id and each geometry record exactly one
\* transcription record: the ids drawn for the detections of a Task are
\* pairwise distinct.
C2_IdsPairOneToOne ==
    \A j \in 1..TaskCount :
        \A a \in 1..Len(TaskResult(j)) :
            Cardinality({b \in 1..Len(TaskResult(j)) :
                            /\ TaskResult(j)[b].id = TaskResult(j)[a].id
                            /\ TaskResult(j)[b].from_name # TaskResult(j)[a].from_name})
                = 1

\* C3 (as claimed): a detection whose text is empty or whitespace-only produces
\* no records: a Task holds two records per detection with non-blank text, and
\* none when every text is blank.
C3_BlankTextDropped ==
    \A j \in 1..TaskCount :
        LET dets == Detections(ImageFiles(p_done)[j])
        IN  /\ Len(TaskResult(j)) =
                   2 * Cardinality({i \in 1..Len(dets) : ~Blank(dets[i][2][1])})
            /\ (\A i \in 1..Len(dets) : Blank(dets[i][2][1])) => TaskResult(j) = <<>>

\* C3 (amended): a detection whose text is the empty string produces no
\* records: a Task holds, in detection order, one geometry record and one
\* transcription record per detection whose text is not "" (a whitespace-only
\* text is kept), and its result is empty when every text is "".
C3_EmptyTextDropped ==
    \A j \in 1..TaskCount :
        LET dets == Detections(ImageFiles(p_done)[j])
            kept == SelectSeq(dets, LAMBDA d : d[2][1] # "")
        IN  /\ Len(TaskResult(j)) = 2 * Len(kept)
            /\ \A k \in 1..Len(kept) :
                  /\ TaskResult(j)[2 * k - 1].from_name = "bbox"
                  /\ TaskResult(j)[2 * k].from_name = "transcription"
                  /\ TaskResult(j)[2 * k].value.text = <<kept[k][2][1]>>
            /\ (\A i \in 1..Len(dets) : dets[i][2][1] = "") => TaskResult(j) = <<>>

\* Witness of C3: a Task built from two detections, one with empty text and one
\* whitespace-only, holds the two records of the latter; another Task of
\* the same call, built from a non-empty list of empty texts, has an empty result.
C3_Witness ==
    /\ p_pc = "returned"
    /\ \E j \in 1..TaskCount :
          LET dets == Detections(ImageFiles(p_done)[j])
          IN  /\ Len(dets) = 2
              /\ dets[1][2][1] = ""
              /\ dets[2][2][1] = " "
              /\ Len(TaskResult(j)) = 2
    /\ \E j \in 1..TaskCount :
          /\ Len(Detections(ImageFiles(p_done)[j])) > 0
          /\ \A i \in 1..Len(Detections(ImageFiles(p_done)[j])) :
                Detections(ImageFiles(p_done)[j])[i][2][1] = ""
          /\ TaskResult(j) = <<>>

\* C6 (as claimed): an image of zero width or zero height makes the call raise
\* an explicit geometry error, whatever its detections: no Task is ever
\* appended for such an image.
C6_ZeroDimensionRaises ==
    /\ \A j \in 1..TaskCount :
          /\ ImageFiles(p_done)[j].shape[1] # 0
          /\ ImageFiles(p_done)[j].shape[2] # 0
    /\ p_pc = "raised" => p_exc.type = "GeometryError"

\* C8: for every detection with non-empty text the geometry record holds
\* x = 100*p0.x/W, y = 100*p0.y/H, width = 100*(p2.x-p0.x)/W,
\* height = 100*(p2.y-p0.y)/H, rotation = 0, and the transcription record of
\* the detection holds the same five values; a 100x200 image and the polygon
\* (10,10),(50,10),(50,30),(10,30) give x 10, y 5, width 40, height 10.
C8_NormalizedBox ==
    \A j \in 1..TaskCount :
        LET file == ImageFiles(p_done)[j]
            H    == file.shape[1]
            W    == file.shape[2]
            kept == SelectSeq(Detections(file), LAMBDA d : d[2][1] # "")
        IN  /\ Len(TaskResult(j)) = 2 * Len(kept)
            /\ \A k \in 1..Len(kept) :
                  LET p0 == kept[k][1][1]
                      p2 == kept[k][1][3]
                      g  == TaskResult(j)[2 * k - 1]
                      t  == TaskResult(j)[2 * k]
                  IN  /\ g.from_name = "bbox"
                      /\ t.from_name = "transcription"
                      /\ W # 0 /\ H # 0
                      /\ IsQuotient(g.value.x, 100 * p0[1], W)
                      /\ IsQuotient(g.value.y, 100 * p0[2], H)
                      /\ IsQuotient(g.value.width, 100 * (p2[1] - p0[1]), W)
                      /\ IsQuotient(g.value.height, 100 * (p2[2] - p0[2]), H)
                      /\ g.value.rotation = 0
                      /\ t.value.x = g.value.x
                      /\ t.value.y = g.value.y
                      /\ t.value.width = g.value.width
                      /\ t.value.height = g.value.height
                      /\ t.value.rotation = g.value.rotation
                      /\ (W = 100 /\ H = 200
                          /\ kept[k][1] = <<<<10, 10>>, <<50, 10>>, <<50, 30>>, <<10, 30>>>>)
                         => g.value = [x |-> Whole(10), y |-> Whole(5),
                                       width |-> Whole(40), height |-> Whole(10),
                                       rotation |-> 0]

\* Witness of C8: the Task of a 100x200 image with the example polygon and the
\* text "ABC" holds the example box in both records.
C8_Witness ==
    \E j \in 1..TaskCount :
        /\ ImageFiles(p_done)[j].shape = <<200, 100>>
        /\ Detections(ImageFiles(p_done)[j]) = <<<<PolyExample, <<"ABC", 1>>>>>>
        /\ TaskResult(j)[1].value.x = Whole(10)
        /\ TaskResult(j)[1].value.height = Whole(10)
        /\ TaskResult(j)[2].value.y = Whole(5)
        /\ TaskResult(j)[2].value.width = Whole(40)
        /\ TaskResult(j)[2].value.text = <<"ABC">>

\* C9 (as claimed): every box emitted for a well-ordered polygon has
\* 0 <= x <= 100, 0 <= y <= 100, width >= 0 and height >= 0.
C9_WellOrderedBoxInRange ==
    \A j \in 1..TaskCount :
        LET kept == SelectSeq(Detections(ImageFiles(p_done)[j]),
                              LAMBDA d : d[2][1] # "")
        IN  \A k \in 1..Len(kept) :
                LET v == TaskResult(j)[2 * k - 1].value
                IN  WellOrdered(kept[k][1]) =>
                        /\ 0 <= v.x.num /\ v.x.num <= 100 * v.x.den
                        /\ 0 <= v.y.num /\ v.y.num <= 100 * v.y.den
                        /\ 0 <= v.width.num
                        /\ 0 <= v.height.num

\* C9 (amended): every box emitted for a well-ordered polygon has width >= 0
\* and height >= 0, and has 0 <= x <= 100 and 0 <= y <= 100 when the polygon's
\* first point lies within the image (0 <= p0.x <= W, 0 <= p0.y <= H); nothing
\* is clamped: a third point left of (above) the first gives a negative width
\* (height), emitted as computed.
C9_BoxInRangeWithinImage ==
    \A j \in 1..TaskCount :
        LET file == ImageFiles(p_done)[j]
            H    == file.shape[1]
            W    == file.shape[2]
            kept == SelectSeq(Detections(file), LAMBDA d : d[2][1] # "")
        IN  \A k \in 1..Len(kept) :
                LET p0 == kept[k][1][1]
                    p2 == kept[k][1][3]
                    v  == TaskResult(j)[2 * k - 1].value
                IN  /\ W > 0 /\ H > 0
                    /\ WellOrdered(kept[k][1]) =>
                          /\ 0 <= v.width.num
                          /\ 0 <= v.height.num
                    /\ (WellOrdered(kept[k][1]) /\ 0 <= p0[1] /\ p0[1] <= W
                          /\ 0 <= p0[2] /\ p0[2] <= H) =>
                          /\ 0 <= v.x.num /\ v.x.num <= 100 * v.x.den
                          /\ 0 <= v.y.num /\ v.y.num <= 100 * v.y.den
                    /\ p2[1] < p0[1] =>
                          /\ v.width.num < 0
                          /\ IsQuotient(v.width, 100 * (p2[1] - p0[1]), W)
                    /\ p2[2] < p0[2] =>
                          /\ v.height.num < 0
                          /\ IsQuotient(v.height, 100 * (p2[2] - p0[2]), H)

\* Witness of C9: one Task holds the box of a well-ordered polygon inside the
\* image and the box, of negative width and height, of a polygon given in
\* reverse order.
C9_Witness ==
    \E j \in 1..TaskCount :
        LET dets == Detections(ImageFiles(p_done)[j])
        IN  /\ Len(dets) = 2
            /\ Len(TaskResult(j)) = 4
            /\ dets[1][1] = PolyFull
            /\ dets[2][1] = PolyReversed
            /\ ImageFiles(p_done)[j].shape = <<200, 100>>
            /\ TaskResult(j)[1].value.width = Whole(100)
            /\ TaskResult(j)[3].value.width = Whole(-40)
            /\ TaskResult(j)[3].value.height = Whole(-10)

====
